---------------------------- MODULE Spec2Model ----------------------------
(***************************************************************************)
(* A model of LanguageConfusionCalculator                                  *)
(* (src/language_confusion_calculator.py).                                 *)
(*                                                                         *)
(* A Python str is a sequence of characters.  A character is a one-element *)
(* TLA+ string; the characters outside ASCII are written by name:          *)
(*   "EMDASH"   U+2014  the dash normalize turns into a space              *)
(*   "ARCOMMA"  U+060C  the Arabic comma normalize deletes                 *)
(*   "IDEOSTOP" U+3002  the ideographic full stop (Unicode category Po)    *)
(*   "INVEXCL"  U+00A1  the inverted exclamation mark (category Po)        *)
(*   "HANGUL"   a Hangul syllable, U+AC00..U+D7A3                          *)
(*   "HAN"      a CJK unified ideograph, U+4E00..U+9FFF                    *)
(*   "KANA"     a hiragana or katakana letter, U+3040..U+30FF              *)
(*   "E_ACUTE", "N_TILDE", "ESZETT"  accented Latin letters                *)
(*   "DQUOTE", "BACKSLASH", "BACKTICK"  the ASCII characters of those names*)
(*   "VTAB" U+000B, "FS" "GS" "RS" "US" U+001C..U+001F, "NEL" U+0085,      *)
(*   "NBSP" U+00A0, "OGHAMSPACE" U+1680, "ENSPACE" a space of              *)
(*   U+2000..U+200A, "LINESEP" U+2028, "PARASEP" U+2029, "NNBSP" U+202F,   *)
(*   "MMSP" U+205F, "IDEOSPACE" U+3000: the white space outside " \t\n\r\f" *)
(***************************************************************************)
EXTENDS Integers, Sequences, FiniteSets, TLC

VARIABLES
    text,           \* normalize: the argument of the first call
    once,           \* normalize(text)
    twice,          \* normalize(normalize(text))
    npc,            \* normalize: "start", "once", "twice"
    env,            \* what is installed on the host, and how it behaves
    en_words,       \* self.en_words, the English lexicon
    zh_tokenizer,   \* self.zh_tokenizer: "None" or "jieba"
    ja_tokenizer,   \* self.ja_tokenizer: "None" or "Tagger"
    dict_present,   \* whether the unidic dictionary is on disk
    cache,          \* the lru_cache of tokenize: <<line, lang>> -> tokens
    loads,          \* how often each segmenter was loaded: [zh, ja]
    threads,        \* the tokenize call each thread is in
    call,           \* the call made on the calculator: operation and arguments
    result          \* what that call returned or raised

calc == <<zh_tokenizer, ja_tokenizer, dict_present, cache, loads>>
nvars == <<text, once, twice, npc>>
cvars == <<call, result>>
vars == <<text, once, twice, npc, env, en_words, zh_tokenizer, ja_tokenizer,
          dict_present, cache, loads, threads, call, result>>

(***************************************************************************)
(* Bounds of the model.                                                    *)
(***************************************************************************)
MaxLen == 4             \* longest argument of normalize
NumThreads == 2         \* threads that call tokenize on one calculator
MaxCalls == 2           \* tokenize calls a thread makes
MaxText == 3            \* longest argument of detect_language
MaxLines == 2           \* most lines of a response
MaxDen == 3             \* greatest denominator of a metric handed to a score

(***************************************************************************)
(* Characters.                                                             *)
(***************************************************************************)
\* string.punctuation, the 32 ASCII punctuation characters (line 93)
Punctuation ==
    {"!", "DQUOTE", "#", "$", "%", "&", "'", "(", ")", "*", "+", ",", "-",
     ".", "/", ":", ";", "<", "=", ">", "?", "@", "[", "BACKSLASH", "]", "^",
     "_", "BACKTICK", "{", "|", "}", "~"}

\* the characters str.strip() and str.split() treat as white space, the ones
\* str.isspace() is true of: the ASCII ones, U+0085, U+00A0, U+1680,
\* U+2000..U+200A, U+2028, U+2029, U+202F, U+205F and U+3000
Whitespace ==
    {" ", "\n", "\t", "\r", "\f", "VTAB", "FS", "GS", "RS", "US", "NEL",
     "NBSP", "OGHAMSPACE", "ENSPACE", "LINESEP", "PARASEP", "NNBSP", "MMSP",
     "IDEOSPACE"}

\* Unicode punctuation (categories P*) outside ASCII that occurs in the inputs
UnicodePunctuation == {"EMDASH", "ARCOMMA", "IDEOSTOP", "INVEXCL"}

\* the marker of line 92, '\nQ:'
QMarker == <<"\n", "Q", ":">>

(***************************************************************************)
(* str helpers.                                                            *)
(***************************************************************************)
\* s[i:i+len(p)] == p
MatchesAt(s, p, i) ==
    /\ i + Len(p) - 1 <= Len(s)
    /\ \A k \in 1..Len(p) : s[i + k - 1] = p[k]

\* s.split(sep)[0]: the text before the first occurrence of sep
SplitFirst(s, sep) ==
    LET hits == {i \in 1..Len(s) : MatchesAt(s, sep, i)}
    IN  IF hits = {} THEN s
        ELSE LET first == CHOOSE i \in hits : \A j \in hits : i <= j
             IN  SubSeq(s, 1, first - 1)

\* s.strip()
Strip(s) ==
    LET keep == {i \in 1..Len(s) : s[i] \notin Whitespace}
    IN  IF keep = {} THEN <<>>
        ELSE LET lo == CHOOSE i \in keep : \A j \in keep : i <= j
                 hi == CHOOSE i \in keep : \A j \in keep : j <= i
             IN  SubSeq(s, lo, hi)

\* s.translate(str.maketrans("", "", chars)): delete every character in chars
DeleteChars(s, chars) ==
    LET Keep(c) == c \notin chars IN SelectSeq(s, Keep)

\* s.replace(c, d) for one character c and one character d
ReplaceChar(s, c, d) == [i \in 1..Len(s) |-> IF s[i] = c THEN d ELSE s[i]]

\* s.count over a set of characters
Count(s, chars) == Cardinality({i \in 1..Len(s) : s[i] \in chars})

(***************************************************************************)
(* normalize (lines 82-96).                                                *)
(***************************************************************************)
\* a slip: the .strip() of line 92 is forgotten
normalize_nostrip(t) ==
    LET t1 == SplitFirst(t, QMarker)
        t2 == DeleteChars(t1, Punctuation)
        t3 == ReplaceChar(t2, "EMDASH", " ")
    IN  DeleteChars(t3, {"ARCOMMA"})

\* a slip: the em-dash is deleted like the Arabic comma
normalize_dashdeleted(t) ==
    LET t1 == Strip(SplitFirst(t, QMarker))
        t2 == DeleteChars(t1, Punctuation)
        t3 == DeleteChars(t2, {"EMDASH"})
    IN  DeleteChars(t3, {"ARCOMMA"})

normalize(t) ==
    LET t1 == Strip(SplitFirst(t, QMarker))              \* line 92
        t2 == DeleteChars(t1, Punctuation)               \* line 93
        t3 == ReplaceChar(t2, "EMDASH", " ")             \* line 94
    IN  DeleteChars(t3, {"ARCOMMA"})                     \* line 95

(***************************************************************************)
(* Character classes and the external segmenters.                          *)
(***************************************************************************)
AsciiLetters ==
    {"a", "b", "c", "d", "e", "f", "g", "h", "i", "j", "k", "l", "m", "n",
     "o", "p", "q", "r", "s", "t", "u", "v", "w", "x", "y", "z",
     "A", "B", "C", "D", "E", "F", "G", "H", "I", "J", "K", "L", "M", "N",
     "O", "P", "Q", "R", "S", "T", "U", "V", "W", "X", "Y", "Z"}

AccentedLetters == {"E_ACUTE", "N_TILDE", "ESZETT"}

\* the script a segmenter sees a character as
ScriptClass(c) ==
    CASE c \in Whitespace -> "space"
      [] c = "HANGUL" -> "hangul"
      [] c = "HAN" -> "han"
      [] c = "KANA" -> "kana"
      [] c \in AsciiLetters \cup AccentedLetters -> "latin"
      [] OTHER -> "other"

\* the class that delimits a token: mode "space" separates white space from
\* everything else, mode "script" separates the scripts as well
TokenClass(mode, c) ==
    IF mode = "space"
    THEN (IF c \in Whitespace THEN "space" ELSE "word")
    ELSE ScriptClass(c)

\* the maximal runs of characters of one class, from position i on
RECURSIVE RunsFrom(_, _, _)
RunsFrom(s, i, mode) ==
    IF i > Len(s) THEN <<>>
    ELSE LET same == {j \in i..Len(s) :
                        \A k \in i..j : TokenClass(mode, s[k]) = TokenClass(mode, s[i])}
             last == CHOOSE j \in same : \A k \in same : k <= j
         IN  <<SubSeq(s, i, last)>> \o RunsFrom(s, last + 1, mode)

IsWord(tok) == tok[1] \notin Whitespace

\* str.split(): the maximal runs of characters that are not white space
SplitWhitespace(s) == SelectSeq(RunsFrom(s, 1, "space"), IsWord)

\* list(s): every character a token
Chars(s) == [i \in 1..Len(s) |-> <<s[i]>>]

\* list(jieba.cut(line)): the tokens concatenate to the line.  The segmenter
\* is a deterministic function of the line; env.seg says which of two it is:
\* one token per character, or one token per run of one script.
JiebaCut(line) ==
    IF env.seg = "chars" THEN Chars(line) ELSE RunsFrom(line, 1, "script")

\* Tagger.parse(line).split(): wakati output, split at white space
FugashiParse(line) ==
    IF env.seg = "chars" THEN Chars(DeleteChars(line, Whitespace))
    ELSE SelectSeq(RunsFrom(line, 1, "script"), IsWord)

(***************************************************************************)
(* tokenize and _simple_tokenize (lines 121-183).                          *)
(***************************************************************************)
CJK == {"ko", "zh", "ja"}

\* _simple_tokenize (lines 167-183)
simple_tokenize(line, lang) ==
    IF lang \in CJK THEN Chars(Strip(line)) ELSE SplitWhitespace(line)

Returned(c, toks) == [zh |-> c.zh, ja |-> c.ja, dict |-> c.dict, loads |-> c.loads,
                      raised |-> FALSE, tokens |-> toks]
Raised(c) == [zh |-> c.zh, ja |-> c.ja, dict |-> c.dict, loads |-> c.loads,
              raised |-> TRUE, tokens |-> <<>>]

\* the zh branch, lines 133-143
tokenize_zh(c, line) ==
    IF c.zh = "None"
    THEN IF ~env.jieba
         THEN Returned(c, simple_tokenize(line, "zh"))          \* lines 139-141
         ELSE Returned([c EXCEPT !.zh = "jieba",                \* lines 136-138
                                 !.loads.zh = @ + 1],
                       JiebaCut(line))                          \* line 143
    ELSE Returned(c, JiebaCut(line))

\* the ja branch, lines 145-159
tokenize_ja(c, line) ==
    LET loaded == [c EXCEPT !.ja = "Tagger", !.loads.ja = @ + 1] IN
    IF c.ja = "None"
    THEN IF ~env.fugashi
         THEN Returned(c, simple_tokenize(line, "ja"))          \* lines 155-157
         ELSE IF c.dict
         THEN Returned(loaded, FugashiParse(line))              \* line 150
         ELSE IF ~env.unidic                                    \* line 152
         THEN Returned(c, simple_tokenize(line, "ja"))          \* lines 155-157
         ELSE IF env.fetch = "raises"                           \* line 153
         THEN Raised(c)
         ELSE IF env.fetch = "works"
         THEN Returned([loaded EXCEPT !.dict = TRUE],           \* line 154
                       FugashiParse(line))
         ELSE Raised(c)                                         \* line 154
    ELSE Returned(c, FugashiParse(line))                        \* line 159

\* the body of tokenize, lines 133-165
tokenize_body(c, line, lang) ==
    CASE lang = "zh" -> tokenize_zh(c, line)
      [] lang = "ja" -> tokenize_ja(c, line)
      [] OTHER -> Returned(c, simple_tokenize(line, lang))      \* lines 161-165

\* what the lru_cache wrapper does with the outcome r of the body: a returned
\* list is stored under the key, an exception stores nothing
cache_store(c, key, r) ==
    IF r.raised
    THEN [c |-> [c EXCEPT !.zh = r.zh, !.ja = r.ja, !.dict = r.dict,
                          !.loads = r.loads],
          raised |-> TRUE, tokens |-> <<>>]
    ELSE [c |-> [c EXCEPT !.zh = r.zh, !.ja = r.ja, !.dict = r.dict,
                          !.loads = r.loads, !.cache = @ @@ (key :> r.tokens)],
          raised |-> FALSE, tokens |-> r.tokens]

\* tokenize under functools.lru_cache (line 121): a hit returns the stored
\* list without running the body
tokenize(c, line, lang) ==
    IF <<line, lang>> \in DOMAIN c.cache
    THEN [c |-> c, raised |-> FALSE, tokens |-> c.cache[<<line, lang>>]]
    ELSE cache_store(c, <<line, lang>>, tokenize_body(c, line, lang))

\* the calculator's tokenizer state as one record
Calc == [zh |-> zh_tokenizer, ja |-> ja_tokenizer, dict |-> dict_present,
         loads |-> loads, cache |-> cache]

(***************************************************************************)
(* LANGUAGE_PATTERNS and detect_language_characters (lines 30-40, 98-119). *)
(***************************************************************************)
\* the keys of LANGUAGE_PATTERNS in the order the dict literal gives them
LangOrder == <<"ko", "zh", "ja", "en", "es", "fr", "de", "it", "pt">>

\* SUPPORTED_LANGUAGES (lines 17-27)
SUPPORTED_LANGUAGES == {"ko", "en", "zh", "ja", "es", "fr", "de", "it", "pt"}

\* the characters LANGUAGE_PATTERNS[lang] matches
PatternChars(lang) ==
    CASE lang = "ko" -> {"HANGUL"}
      [] lang = "zh" -> {"HAN"}
      [] lang = "ja" -> {"KANA", "HAN"}
      [] lang = "en" -> AsciiLetters
      [] lang = "es" -> AsciiLetters \cup {"E_ACUTE", "N_TILDE"}
      [] lang = "fr" -> AsciiLetters \cup {"E_ACUTE"}
      [] lang = "de" -> AsciiLetters \cup {"ESZETT"}
      [] lang = "it" -> AsciiLetters \cup {"E_ACUTE"}
      [] lang = "pt" -> AsciiLetters \cup {"E_ACUTE"}

\* len(pattern.findall(text))
Matches(lang, t) == Cardinality({i \in 1..Len(t) : t[i] \in PatternChars(lang)})

\* detect_language_characters: the ratio of each language is matches / total,
\* kept as the pair; an empty dict for text that is empty or white space
detect_language_characters(t) ==
    IF Strip(t) = <<>>
    THEN [empty |-> TRUE, total |-> 0,
          matches |-> [l \in SUPPORTED_LANGUAGES |-> 0]]
    ELSE [empty |-> FALSE, total |-> Len(t),
          matches |-> [l \in SUPPORTED_LANGUAGES |-> Matches(l, t)]]

\* max(char_scores.items(), key=lambda x: x[1])[0] (line 203): the first key,
\* in dict order, whose ratio no later key exceeds
RECURSIVE MaxFrom(_, _, _)
MaxFrom(scores, i, best) ==
    IF i > Len(LangOrder) THEN best
    ELSE MaxFrom(scores, i + 1,
                 IF scores.matches[LangOrder[i]] > scores.matches[best]
                 THEN LangOrder[i] ELSE best)

\* a slip: of equal ratios the last key in dict order wins
char_winner_last(scores) ==
    LangOrder[CHOOSE i \in 1..Len(LangOrder) :
                /\ \A j \in 1..Len(LangOrder) :
                      scores.matches[LangOrder[j]] <= scores.matches[LangOrder[i]]
                /\ \A j \in (i + 1)..Len(LangOrder) :
                      scores.matches[LangOrder[j]] < scores.matches[LangOrder[i]]]

char_winner(scores) == MaxFrom(scores, 2, LangOrder[1])

(***************************************************************************)
(* detect_language (lines 185-214).  The predictor's answer is the record  *)
(* [raises, label, score], the score in hundredths.                        *)
(***************************************************************************)
\* the confidence floor of line 198, 0.3, in hundredths
ScoreFloor == 30

\* A label is the pair <<start, rest>> of the string start + rest, start
\* being its first nine characters, or all of it when it is shorter.
LabelPrefix == "__label__"

Label(code) == <<LabelPrefix, code>>

Labels == {Label(code) : code \in {"ko", "en", "zh", "ja", "es", "fr", "de", "it",
                                    "pt", "ru"}}

\* label.removeprefix('__label__') (line 198): the rest of a string that
\* starts with the prefix, every other string as it is
removeprefix(label) ==
    IF label[1] = LabelPrefix THEN label[2] ELSE label[1] \o label[2]

\* a slip: the override takes a ratio of exactly one half too
Over_half_inclusive(matches, total) == 2 * matches >= total

\* char_score > 0.5 (line 207), with char_score = matches / total
Over_half(matches, total) == 2 * matches > total

\* lines 202-210: the character-based winner overrides the vote
override(vote, scores) ==
    IF ~scores.empty                                            \* line 202
       /\ Over_half(scores.matches[char_winner(scores)],
                    scores.total)                               \* line 207
    THEN char_winner(scores)                                    \* line 208
    ELSE vote                                                   \* line 210

detect_language(t, pred) ==
    IF pred.raises THEN "unknown"                               \* lines 212-214
    ELSE override(IF pred.score > ScoreFloor                    \* line 198
                  THEN removeprefix(pred.label) ELSE "unknown",
                  detect_language_characters(t))                \* line 201

(***************************************************************************)
(* Numbers.  A float the code computes as a quotient of counts is kept as  *)
(* the exact fraction <<numerator, denominator>> in lowest terms.          *)
(***************************************************************************)
RECURSIVE Gcd(_, _)
Gcd(a, b) == IF b = 0 THEN a ELSE Gcd(b, a % b)

Rat(n, d) == LET g == Gcd(n, d) IN <<n \div g, d \div g>>
RatAdd(a, b) == Rat(a[1] * b[2] + b[1] * a[2], a[2] * b[2])
RatLeq(a, b) == a[1] * b[2] <= b[1] * a[2]
One == <<1, 1>>
Zero == <<0, 1>>

\* Python's None where a fraction is expected
None == <<>>

RatSub(a, b) == Rat(a[1] * b[2] - b[1] * a[2], a[2] * b[2])
RatMul(a, b) == Rat(a[1] * b[1], a[2] * b[2])

\* sum(vals) for a list of fractions
RECURSIVE RatSum(_)
RatSum(vals) == IF vals = <<>> THEN Zero ELSE RatAdd(Head(vals), RatSum(Tail(vals)))

\* max(1, n)
Max1(n) == IF n < 1 THEN 1 ELSE n

(***************************************************************************)
(* _load_english_words (lines 64-72).                                      *)
(***************************************************************************)
LowerLetters ==
    {"a", "b", "c", "d", "e", "f", "g", "h", "i", "j", "k", "l", "m", "n",
     "o", "p", "q", "r", "s", "t", "u", "v", "w", "x", "y", "z"}

\* the cased characters of the model: the upper-case ones are ASCII, the
\* accented letters are all lower-case
UpperCased == AsciiLetters \ LowerLetters
LowerCased == LowerLetters \cup AccentedLetters

\* str.islower(): no upper-case character and at least one cased character
islower(w) ==
    /\ \E i \in 1..Len(w) : w[i] \in LowerCased
    /\ \A i \in 1..Len(w) : w[i] \notin UpperCased

\* the words file is missing ("missing") or a list of lines
load_english_words(file) ==
    IF file = "missing" THEN {}
    ELSE {Strip(file[i]) : i \in {j \in 1..Len(file) :
                                    islower(Strip(file[j])) /\ Len(Strip(file[j])) > 3}}

(***************************************************************************)
(* The statistical predictor, self.lid_model.predict (line 197): a fixed   *)
(* function of the text, one of four the host may have loaded.             *)
(***************************************************************************)
ScriptLabel(t) ==
    CASE Count(t, {"HANGUL"}) > 0 -> Label("ko")
      [] Count(t, {"KANA"}) > 0 -> Label("ja")
      [] Count(t, {"HAN"}) > 0 -> Label("zh")
      [] Count(t, AccentedLetters) > 0 -> Label("es")
      [] Count(t, AsciiLetters) > 0 -> Label("en")
      [] OTHER -> Label("ru")

\* a predictor that takes Latin script for Spanish and Han script for Japanese
RegionalLabel(t) ==
    CASE Count(t, {"HANGUL"}) > 0 -> Label("ko")
      [] Count(t, {"KANA", "HAN"}) > 0 -> Label("ja")
      [] Count(t, AsciiLetters \cup AccentedLetters) > 0 -> Label("es")
      [] OTHER -> Label("ru")

predict(t) ==
    CASE env.predictor = "broken" -> [raises |-> TRUE, label |-> <<"", "">>, score |-> 0]
      [] env.predictor = "regional" ->
            [raises |-> FALSE, label |-> RegionalLabel(t), score |-> 99]
      [] env.predictor = "unsure" ->
            [raises |-> FALSE, label |-> ScriptLabel(t), score |-> 30]
      [] OTHER -> [raises |-> FALSE, label |-> ScriptLabel(t), score |-> 99]

(***************************************************************************)
(* calculate_language_confusion (lines 216-293).                           *)
(***************************************************************************)
\* str.split("\n"): the pieces between the newlines, at least one
RECURSIVE SplitLines(_)
SplitLines(s) ==
    LET nl == {i \in 1..Len(s) : s[i] = "\n"} IN
    IF nl = {} THEN <<s>>
    ELSE LET first == CHOOSE i \in nl : \A j \in nl : i <= j
         IN  <<SubSeq(s, 1, first - 1)>> \o SplitLines(SubSeq(s, first + 1, Len(s)))

\* line 235: tokenize every line in turn; the first call that raises ends it
RECURSIVE tokenize_all(_, _, _, _)
tokenize_rest(r, lines, lang, acc) ==
    IF r.raised THEN [c |-> r.c, raised |-> TRUE, line_tokens |-> acc]
    ELSE tokenize_all(r.c, Tail(lines), lang, Append(acc, r.tokens))

tokenize_all(c, lines, lang, acc) ==
    IF lines = <<>> THEN [c |-> c, raised |-> FALSE, line_tokens |-> acc]
    ELSE tokenize_rest(tokenize(c, Head(lines), lang), lines, lang, acc)

\* token.strip() in self.en_words for some token (line 270)
any_english(tokens) == \E i \in 1..Len(tokens) : Strip(tokens[i]) \in en_words

\* char_scores.get(expected_language, 0.0) (line 265)
confidence_of(scores, lang) ==
    IF scores.empty \/ lang \notin DOMAIN scores.matches THEN Zero
    ELSE Rat(scores.matches[lang], scores.total)

\* a slip: the word check of line 270 is an if of its own, not an elif
line_outcome_if(line, tokens, lang, detected) ==
    [line |-> line, tokens |-> tokens, detected |-> detected,
     correct |-> detected = lang,
     confidence |-> confidence_of(detect_language_characters(line), lang),
     word_error |-> /\ en_words # {}
                    /\ lang \in CJK
                    /\ any_english(tokens)]

\* lines 261-273: what the loop records for a line detected as `detected`
line_outcome(line, tokens, lang, detected) ==
    [line |-> line, tokens |-> tokens, detected |-> detected,
     correct |-> detected = lang,                                   \* line 261
     confidence |->                                                 \* lines 264-265
        confidence_of(detect_language_characters(line), lang),
     word_error |-> /\ detected = lang                              \* line 270
                    /\ en_words # {}
                    /\ lang \in CJK
                    /\ any_english(tokens)]

\* the body of the loop of lines 258-273 for one surviving line
line_record(line, tokens, lang) ==
    line_outcome(line, tokens, lang, detect_language(line, predict(line)))  \* line 260

\* lines 238-247
default_metrics(lang) ==
    [line_accuracy |-> One,
     line_pass_rate |-> One,
     word_pass_rate |-> IF lang \in CJK THEN One ELSE None,
     total_lines |-> 0,
     lines_with_errors |-> 0,
     lines_with_word_errors |-> 0,
     language_confidence |-> One]

\* a slip: word_pass_rate is divided by all lines and given for every language
word_pass_rate_always(lang, total, errors, word_errors) ==
    Rat(Max1(total) - word_errors, Max1(total))

\* lines 287-291
word_pass_rate(lang, total, errors, word_errors) ==
    IF lang \in CJK
    THEN Rat(Max1(total - errors) - word_errors, Max1(total - errors))
    ELSE None

\* lines 275-293, from the counts of the loop
metrics_from(total, errors, word_errors, confidences, lang) ==
    [line_accuracy |-> Rat(total - errors, total),                  \* line 279
     line_pass_rate |-> Rat(Max1(total) - errors, Max1(total)),     \* line 280
     word_pass_rate |-> word_pass_rate(lang, total, errors, word_errors),
     total_lines |-> total,
     lines_with_errors |-> errors,
     lines_with_word_errors |-> word_errors,
     language_confidence |-> RatMul(confidences, <<1, total>>)]     \* line 284

\* lines 253-293, from the records of the surviving lines
metrics_of(recs, lang) ==
    metrics_from(Len(recs),
                 Cardinality({i \in 1..Len(recs) : ~recs[i].correct}),
                 Cardinality({i \in 1..Len(recs) : recs[i].word_error}),
                 RatSum([i \in 1..Len(recs) |-> recs[i].confidence]),
                 lang)

\* a slip: the check is left out
supported_any(lang) == TRUE

\* the valid language check of lines 227-228 and 306-307
supported(lang) == lang \in SUPPORTED_LANGUAGES

\* line 236: the indices of the lines with at least 3 tokens, in order
valid_indices(line_tokens) ==
    LET Valid(i) == Len(line_tokens[i]) >= 3
    IN  SelectSeq([i \in 1..Len(line_tokens) |-> i], Valid)

\* lines 249-273: the records of the surviving lines
line_records(lines, line_tokens, indices, lang) ==
    [k \in 1..Len(indices) |->
        line_record(lines[indices[k]], line_tokens[indices[k]], lang)]

\* lines 238-293, once every line is tokenized
score_lines(c, lines, line_tokens, recs, lang) ==
    IF recs = <<>>                                                   \* line 238
    THEN [c |-> c, kind |-> "returned", metrics |-> default_metrics(lang),
          records |-> <<>>, lines |-> lines, line_tokens |-> line_tokens,
          normalized |-> 1, tokenized |-> Len(lines), detected |-> 0]
    ELSE [c |-> c, kind |-> "returned", metrics |-> metrics_of(recs, lang),
          records |-> recs, lines |-> lines, line_tokens |-> line_tokens,
          normalized |-> 1, tokenized |-> Len(lines), detected |-> Len(recs)]

\* lines 235-293: an exception of tokenize leaves the call
tokenize_and_score(lines, toks, lang) ==
    IF toks.raised
    THEN [c |-> toks.c, kind |-> "raised", error |-> "RuntimeError",
          normalized |-> 1, tokenized |-> Len(toks.line_tokens) + 1,
          detected |-> 0]
    ELSE score_lines(toks.c, lines, toks.line_tokens,
                     line_records(lines, toks.line_tokens,
                                  valid_indices(toks.line_tokens), lang),
                     lang)

\* lines 231-293
normalize_and_score(c, lines, lang) ==
    tokenize_and_score(lines, tokenize_all(c, lines, lang, <<>>), lang)

\* calculate_language_confusion: the calculator after the call, what the call
\* returned or raised, and the calls it made
calculate_language_confusion(c, response, lang) ==
    IF ~supported(lang)                                              \* lines 227-228
    THEN [c |-> c, kind |-> "raised", error |-> "ValueError",
          normalized |-> 0, tokenized |-> 0, detected |-> 0]
    ELSE normalize_and_score(c, SplitLines(normalize(response)), lang)

(***************************************************************************)
(* The comprehensive scores (lines 362-437).                               *)
(***************************************************************************)
\* the weights of lines 374-379, in hundredths
W_line_accuracy == 40
W_language_confidence == 30
W_line_pass_rate == 20
W_word_pass_rate == 10

\* a slip: the word_pass_rate weight is zeroed and moved nowhere
weights_dropped(m, lang) ==
    [line_accuracy |-> Rat(W_line_accuracy, 100),
     language_confidence |-> Rat(W_language_confidence, 100),
     line_pass_rate |-> Rat(W_line_pass_rate, 100),
     word_pass_rate |-> IF lang \notin CJK \/ m.word_pass_rate = None
                        THEN Zero ELSE Rat(W_word_pass_rate, 100)]

\* lines 382-385: the weights in use, in hundredths; 60% and 40% of the
\* word_pass_rate weight move when it does not apply
weights(m, lang) ==
    IF lang \notin CJK \/ m.word_pass_rate = None
    THEN [line_accuracy |-> RatAdd(<<W_line_accuracy, 100>>,
                                   RatMul(<<W_word_pass_rate, 100>>, <<6, 10>>)),
          language_confidence |-> RatAdd(<<W_language_confidence, 100>>,
                                         RatMul(<<W_word_pass_rate, 100>>, <<4, 10>>)),
          line_pass_rate |-> Rat(W_line_pass_rate, 100),
          word_pass_rate |-> Zero]
    ELSE [line_accuracy |-> Rat(W_line_accuracy, 100),
          language_confidence |-> Rat(W_language_confidence, 100),
          line_pass_rate |-> Rat(W_line_pass_rate, 100),
          word_pass_rate |-> Rat(W_word_pass_rate, 100)]

\* calculate_comprehensive_score, lines 362-395
calculate_comprehensive_score(m, lang) ==
    LET w == weights(m, lang) IN
    RatSum(<<RatMul(RatSub(One, m.line_accuracy), w.line_accuracy),
             RatMul(RatSub(One, m.language_confidence), w.language_confidence),
             RatMul(RatSub(One, m.line_pass_rate), w.line_pass_rate),
             RatMul(IF m.word_pass_rate = None THEN Zero
                    ELSE RatSub(One, m.word_pass_rate), w.word_pass_rate)>>)

\* a slip: line_accuracy enters the list as it is, not as its complement
component_scores_raw(m) ==
    <<m.line_accuracy, RatSub(One, m.language_confidence),
      RatSub(One, m.line_pass_rate)>>
    \o (IF m.word_pass_rate # None THEN <<RatSub(One, m.word_pass_rate)>> ELSE <<>>)

\* the list scores of lines 407-414 and 428-435
component_scores(m) ==
    <<RatSub(One, m.line_accuracy), RatSub(One, m.language_confidence),
      RatSub(One, m.line_pass_rate)>>
    \o (IF m.word_pass_rate # None THEN <<RatSub(One, m.word_pass_rate)>> ELSE <<>>)

\* calculate_simple_comprehensive_score, lines 397-416
calculate_simple_comprehensive_score(m) ==
    LET scores == component_scores(m)
        sum == RatSum(scores)
    IN  Rat(sum[1], sum[2] * Len(scores))

\* calculate_max_comprehensive_score, lines 418-437
calculate_max_comprehensive_score(m) ==
    LET scores == component_scores(m) IN
    scores[CHOOSE i \in 1..Len(scores) : \A j \in 1..Len(scores) : RatLeq(scores[j], scores[i])]

\* lines 452-458: the dict calculate_all_scores returns for the metrics of r,
\* kept with what the call to calculate_language_confusion did
all_scores_of(r, lang) ==
    IF r.kind = "raised" THEN r                                      \* line 450
    ELSE [comprehensive_score |->
             calculate_comprehensive_score(r.metrics, lang),         \* line 454
          simple_comprehensive_score |->
             calculate_simple_comprehensive_score(r.metrics),        \* line 455
          max_comprehensive_score |->
             calculate_max_comprehensive_score(r.metrics),           \* line 456
          language_confusion_score |->
             RatSub(One, r.metrics.line_pass_rate)] @@ r             \* line 457

\* calculate_all_scores, lines 439-458
calculate_all_scores(c, response, lang) ==
    all_scores_of(calculate_language_confusion(c, response, lang), lang)

(***************************************************************************)
(* analyze_response (lines 295-351).                                       *)
(***************************************************************************)
\* SUPPORTED_LANGUAGES[lang], lines 17-27
language_name(lang) ==
    CASE lang = "ko" -> "Korean"
      [] lang = "en" -> "English"
      [] lang = "zh" -> "Chinese"
      [] lang = "ja" -> "Japanese"
      [] lang = "es" -> "Spanish"
      [] lang = "fr" -> "French"
      [] lang = "de" -> "German"
      [] lang = "it" -> "Italian"
      [] lang = "pt" -> "Portuguese"

\* lines 322-324
english_words(tokens, lang) ==
    LET InLexicon(tok) == Strip(tok) \in en_words IN
    IF lang \in CJK /\ en_words # {} THEN SelectSeq(tokens, InLexicon) ELSE <<>>

\* the entry of lines 318-335 for line number i
line_entry(i, line, tokens, lang) ==
    [line_number |-> i,
     content |-> line,
     detected_language |-> detect_language(line, predict(line)),    \* line 318
     is_correct_language |-> detect_language(line, predict(line)) = lang,
     language_confidence |->
        confidence_of(detect_language_characters(line), lang),
     english_words_found |-> english_words(tokens, lang),
     has_english_words |-> Len(english_words(tokens, lang)) > 0]

\* lines 340-350
summary_of(m, lang) ==
    [expected_language |-> lang,
     language_name |-> language_name(lang),
     total_lines_analyzed |-> m.total_lines,
     language_confusion_score |-> RatSub(One, m.line_pass_rate),
     overall_accuracy |-> m.line_accuracy,
     language_confidence |-> m.language_confidence,
     comprehensive_score |-> calculate_comprehensive_score(m, lang),
     simple_comprehensive_score |-> calculate_simple_comprehensive_score(m),
     max_comprehensive_score |-> calculate_max_comprehensive_score(m)]

\* lines 316-319: the lines that are analyzed, each tokenized again
RECURSIVE analyze_lines(_, _, _, _, _)
analyze_rest(r, lines, i, lang, acc) ==
    IF r.raised THEN [c |-> r.c, raised |-> TRUE, entries |-> acc]
    ELSE analyze_lines(r.c, lines, i + 1, lang,
                       Append(acc, line_entry(i, lines[i], r.tokens, lang)))

analyze_lines(c, lines, i, lang, acc) ==
    IF i > Len(lines) THEN [c |-> c, raised |-> FALSE, entries |-> acc]
    ELSE IF Len(Strip(lines[i])) < 3                                \* line 317
    THEN analyze_lines(c, lines, i + 1, lang, acc)
    ELSE analyze_rest(tokenize(c, lines[i], lang), lines, i, lang, acc) \* line 319

\* lines 337-351, from the metrics and the analyzed lines
analysis_of(m, a, lang) ==
    IF a.raised
    THEN [c |-> a.c, kind |-> "raised", error |-> "RuntimeError",
          normalized |-> 2, tokenized |-> m.tokenized + Len(a.entries) + 1,
          detected |-> m.detected + Len(a.entries) + 1]
    ELSE [c |-> a.c, kind |-> "returned", metrics |-> m.metrics,
          records |-> m.records, lines |-> m.lines,
          line_tokens |-> m.line_tokens,
          line_analysis |-> a.entries,
          summary |-> summary_of(m.metrics, lang),
          normalized |-> 2, tokenized |-> m.tokenized + Len(a.entries),
          detected |-> m.detected + Len(a.entries)]

\* lines 309-351: an exception of calculate_language_confusion leaves the call
analyze_metrics(m, response, lang) ==
    IF m.kind = "raised" THEN m
    ELSE analysis_of(m, analyze_lines(m.c, SplitLines(normalize(response)), \* 312-313
                                      1, lang, <<>>),
                     lang)

analyze_response(c, response, lang) ==
    IF ~supported(lang)                                             \* lines 306-307
    THEN [c |-> c, kind |-> "raised", error |-> "ValueError",
          normalized |-> 0, tokenized |-> 0, detected |-> 0]
    ELSE analyze_metrics(calculate_language_confusion(c, response, lang),  \* line 309
                         response, lang)

(***************************************************************************)
(* SpecNormalize: normalize applied to an argument, then to its own result.*)
(***************************************************************************)
NormChars ==
    {"a", "Q", " ", "\n", ":", "EMDASH", "ARCOMMA", "IDEOSTOP", "IDEOSPACE"}

Strings(chars, n) == UNION {[1..k -> chars] : k \in 0..n}

\* the variables a specification does not use
NoNormalize == text = <<>> /\ once = <<>> /\ twice = <<>> /\ npc = "unused"
NoCalculator ==
    /\ env = "unused"
    /\ en_words = {}
    /\ zh_tokenizer = "None"
    /\ ja_tokenizer = "None"
    /\ dict_present = FALSE
    /\ cache = <<>>
    /\ loads = [zh |-> 0, ja |-> 0]
NoThreads == threads = <<>>
NoCall == call = [op |-> "none"] /\ result = [kind |-> "none"]

InitNormalize ==
    /\ text \in Strings(NormChars, MaxLen)
    /\ once = <<>>
    /\ twice = <<>>
    /\ npc = "start"
    /\ NoCalculator
    /\ NoThreads
    /\ NoCall

NormalizeOnce ==
    /\ npc = "start"
    /\ once' = normalize(text)
    /\ npc' = "once"
    /\ UNCHANGED <<text, twice, env, en_words, calc, threads, call, result>>

NormalizeTwice ==
    /\ npc = "once"
    /\ twice' = normalize(once)
    /\ npc' = "twice"
    /\ UNCHANGED <<text, once, env, en_words, calc, threads, call, result>>

NextNormalize == NormalizeOnce \/ NormalizeTwice

SpecNormalize == InitNormalize /\ [][NextNormalize]_vars

\* the part of the argument normalize keeps: before the marker, trimmed
Kept(t) == Strip(SplitFirst(t, QMarker))

\* C1 (as stated): normalize is idempotent, normalize(normalize(x)) equals
\* normalize(x) for every string x.
C1_Idempotent == npc = "twice" => twice = once

\* C1 (amended): a second application of normalize only trims the white space
\* the first one left at the ends: normalize(normalize(x)) equals
\* normalize(x).strip(); the two are equal exactly when normalize(x) neither
\* starts nor ends with white space, and the result never holds the marker.
C1_IdempotentUpToStrip ==
    npc = "twice" =>
        /\ twice = Strip(once)
        /\ (twice = once) <=>
              (once = <<>> \/ (once[1] \notin Whitespace
                               /\ once[Len(once)] \notin Whitespace))
        /\ \A i \in 1..Len(once) : ~MatchesAt(once, QMarker, i)

\* C1 witness: the second application has run on a result that ended in the
\* space an em-dash became, and trimmed it.
C1_Witness ==
    /\ npc = "twice"
    /\ Len(text) = MaxLen
    /\ text[Len(text)] = "EMDASH"
    /\ once # <<>>
    /\ once[Len(once)] = " "
    /\ twice # once

\* C10 (as stated): the result of normalize holds no punctuation character of
\* any script, and every em-dash became a space while the other removed
\* characters were deleted.
C10_NoUnicodePunctuation ==
    npc # "start" =>
        /\ Count(once, Punctuation \cup UnicodePunctuation) = 0
        /\ Count(once, {" "}) = Count(Kept(text), {" ", "EMDASH"})

\* C10 (amended): the result of normalize holds no ASCII punctuation character
\* (string.punctuation), no Arabic comma and no em-dash; every em-dash of the
\* kept text became a space, the ASCII punctuation and the Arabic commas were
\* deleted without a replacement, and every other character, punctuation of
\* other scripts included, is kept.
C10_AsciiPunctuationOnly ==
    npc # "start" =>
        /\ Count(once, Punctuation \cup {"ARCOMMA", "EMDASH"}) = 0
        /\ Count(once, {" "}) = Count(Kept(text), {" ", "EMDASH"})
        /\ Len(once) = Len(Kept(text))
                         - Count(Kept(text), Punctuation \cup {"ARCOMMA"})
        /\ \A c \in NormChars \ (Punctuation \cup {"ARCOMMA", "EMDASH", " "}) :
              Count(once, {c}) = Count(Kept(text), {c})

\* C10 witness: an argument with an em-dash, an ASCII punctuation character and
\* an ideographic full stop has been normalized; the full stop is still there.
C10_Witness ==
    /\ npc = "once"
    /\ Count(text, {"EMDASH"}) = 1
    /\ Count(text, {":"}) = 1
    /\ Count(text, {"IDEOSTOP"}) = 1
    /\ Count(once, {"IDEOSTOP"}) = 1
    /\ Count(once, {" "}) = 1
    /\ Len(once) = 3

(***************************************************************************)
(* SpecTokenize: threads call tokenize on one calculator.  A thread can be *)
(* switched out between any two statements of lines 133-159, so each       *)
(* statement is a step of its own.                                         *)
(***************************************************************************)
Threads == 1..NumThreads

TokLines == { <<"HAN", "HAN", " ", "a", "b">>, <<" ", "KANA", "HAN", " ">> }
TokLangs == {"zh", "ja", "en"}

\* the hosts: what can be imported, what the dictionary fetch does, and how
\* the segmenters cut
Hosts == [jieba : BOOLEAN, fugashi : BOOLEAN, unidic : BOOLEAN,
          fetch : {"works", "noeffect", "raises"}, seg : {"chars", "runs"},
          predictor : {"script"}]

Idle == [pc |-> "idle", line |-> <<>>, lang |-> "", status |-> "none",
         out |-> <<>>, calls |-> 0]

\* the state after __init__ (lines 59-62)
InitCalculator ==
    /\ zh_tokenizer = "None"
    /\ ja_tokenizer = "None"
    /\ cache = <<>>
    /\ loads = [zh |-> 0, ja |-> 0]

InitTokenize ==
    /\ env \in {h \in Hosts : h.seg = "runs"}
    /\ dict_present \in BOOLEAN
    /\ en_words = {}
    /\ InitCalculator
    /\ threads = [t \in Threads |-> Idle]
    /\ NoNormalize
    /\ NoCall

Goto(t, pc) == threads' = [threads EXCEPT ![t].pc = pc]
Return(t, status, out) ==
    threads' = [threads EXCEPT ![t].pc = "idle", ![t].status = status,
                               ![t].out = out, ![t].calls = @ + 1]
Key(t) == <<threads[t].line, threads[t].lang>>

\* the lru_cache wrapper is entered (line 121): a hit returns at once
Call(t) ==
    /\ threads[t].pc = "idle"
    /\ threads[t].calls < MaxCalls
    /\ \E line \in TokLines, lang \in TokLangs :
          IF <<line, lang>> \in DOMAIN cache
          THEN threads' = [threads EXCEPT ![t].line = line, ![t].lang = lang,
                                          ![t].status = "returned",
                                          ![t].out = cache[<<line, lang>>],
                                          ![t].calls = @ + 1]
          ELSE threads' = [threads EXCEPT ![t].line = line, ![t].lang = lang,
                                          ![t].status = "none", ![t].out = <<>>,
                                          ![t].pc = "body"]
    /\ UNCHANGED <<calc, env, en_words, nvars, cvars>>

\* lines 133-134, 145-146, 161-165: the handle is read
Dispatch(t) ==
    /\ threads[t].pc = "body"
    /\ CASE threads[t].lang = "zh" ->
              Goto(t, IF zh_tokenizer = "None" THEN "zh_import" ELSE "zh_cut")
         [] threads[t].lang = "ja" ->
              Goto(t, IF ja_tokenizer = "None" THEN "ja_import" ELSE "ja_parse")
         [] OTHER -> Goto(t, "simple")
    /\ UNCHANGED <<calc, env, en_words, nvars, cvars>>

\* line 136, and the handler of lines 139-141
ZhImport(t) ==
    /\ threads[t].pc = "zh_import"
    /\ Goto(t, IF env.jieba THEN "zh_assign" ELSE "simple")
    /\ UNCHANGED <<calc, env, en_words, nvars, cvars>>

\* line 137
ZhAssign(t) ==
    /\ threads[t].pc = "zh_assign"
    /\ zh_tokenizer' = "jieba"
    /\ Goto(t, "zh_init")
    /\ UNCHANGED <<ja_tokenizer, dict_present, cache, loads, env, en_words, nvars, cvars>>

\* line 138
ZhInitialize(t) ==
    /\ threads[t].pc = "zh_init"
    /\ loads' = [loads EXCEPT !.zh = @ + 1]
    /\ Goto(t, "zh_cut")
    /\ UNCHANGED <<zh_tokenizer, ja_tokenizer, dict_present, cache, env, en_words, nvars, cvars>>

\* line 143
ZhCut(t) ==
    /\ threads[t].pc = "zh_cut"
    /\ threads' = [threads EXCEPT ![t].pc = "store",
                                  ![t].out = JiebaCut(threads[t].line)]
    /\ UNCHANGED <<calc, env, en_words, nvars, cvars>>

\* line 148, and the handler of lines 155-157
JaImport(t) ==
    /\ threads[t].pc = "ja_import"
    /\ Goto(t, IF env.fugashi THEN "ja_tagger" ELSE "simple")
    /\ UNCHANGED <<calc, env, en_words, nvars, cvars>>

\* line 150, the call Tagger(...): the constructor loads the dictionary, or
\* raises RuntimeError without it; the handle is not stored yet
JaTagger(t) ==
    /\ threads[t].pc = "ja_tagger"
    /\ IF dict_present
       THEN /\ loads' = [loads EXCEPT !.ja = @ + 1]
            /\ Goto(t, "ja_store")
       ELSE /\ Goto(t, "ja_unidic")
            /\ UNCHANGED loads
    /\ UNCHANGED <<zh_tokenizer, ja_tokenizer, dict_present, cache, env, en_words,
                   nvars, cvars>>

\* lines 150 and 154, the assignment self.ja_tokenizer = ...: the Tagger this
\* thread constructed is stored, over one another thread stored meanwhile
JaStore(t) ==
    /\ threads[t].pc = "ja_store"
    /\ ja_tokenizer' = "Tagger"
    /\ Goto(t, "ja_parse")
    /\ UNCHANGED <<zh_tokenizer, dict_present, cache, loads, env, en_words, nvars, cvars>>

\* line 152, and the handler of lines 155-157
JaUnidic(t) ==
    /\ threads[t].pc = "ja_unidic"
    /\ Goto(t, IF env.unidic THEN "ja_fetch" ELSE "simple")
    /\ UNCHANGED <<calc, env, en_words, nvars, cvars>>

\* line 153: what the download raises is no ImportError and leaves tokenize
JaFetch(t) ==
    /\ threads[t].pc = "ja_fetch"
    /\ IF env.fetch = "raises"
       THEN Return(t, "raised", <<>>) /\ UNCHANGED dict_present
       ELSE /\ dict_present' = (dict_present \/ env.fetch = "works")
            /\ Goto(t, "ja_retry")
    /\ UNCHANGED <<zh_tokenizer, ja_tokenizer, cache, loads, env, en_words, nvars, cvars>>

\* line 154, the call Tagger(...) again: a second RuntimeError leaves
\* tokenize; the handle is not stored yet
JaRetry(t) ==
    /\ threads[t].pc = "ja_retry"
    /\ IF dict_present
       THEN /\ loads' = [loads EXCEPT !.ja = @ + 1]
            /\ Goto(t, "ja_store")
       ELSE /\ Return(t, "raised", <<>>)
            /\ UNCHANGED loads
    /\ UNCHANGED <<zh_tokenizer, ja_tokenizer, dict_present, cache, env, en_words,
                   nvars, cvars>>

\* line 159
JaParse(t) ==
    /\ threads[t].pc = "ja_parse"
    /\ threads' = [threads EXCEPT ![t].pc = "store",
                                  ![t].out = FugashiParse(threads[t].line)]
    /\ UNCHANGED <<calc, env, en_words, nvars, cvars>>

\* lines 141, 157, 162, 165
Simple(t) ==
    /\ threads[t].pc = "simple"
    /\ threads' = [threads EXCEPT
                     ![t].pc = "store",
                     ![t].out = simple_tokenize(threads[t].line, threads[t].lang)]
    /\ UNCHANGED <<calc, env, en_words, nvars, cvars>>

\* the lru_cache wrapper stores the list and returns it (an entry another
\* thread stored meanwhile is kept)
Store(t) ==
    /\ threads[t].pc = "store"
    /\ cache' = IF Key(t) \in DOMAIN cache THEN cache
                ELSE cache @@ (Key(t) :> threads[t].out)
    /\ Return(t, "returned", threads[t].out)
    /\ UNCHANGED <<zh_tokenizer, ja_tokenizer, dict_present, loads, env, en_words, nvars, cvars>>

NextTokenize ==
    \E t \in Threads :
        \/ Call(t)
        \/ Dispatch(t)
        \/ ZhImport(t)
        \/ ZhAssign(t)
        \/ ZhInitialize(t)
        \/ ZhCut(t)
        \/ JaImport(t)
        \/ JaTagger(t)
        \/ JaStore(t)
        \/ JaUnidic(t)
        \/ JaFetch(t)
        \/ JaRetry(t)
        \/ JaParse(t)
        \/ Simple(t)
        \/ Store(t)

SpecTokenize == InitTokenize /\ [][NextTokenize]_vars

\* C8: segmenter unavailability is never fatal to tokenize: no call for zh or
\* ja ends by raising, and a call that found its segmenter unusable returns
\* the characters of the trimmed line.
C8_NeverFatal ==
    \A t \in Threads :
        /\ threads[t].status # "raised"
        /\ (/\ threads[t].status = "returned"
            /\ threads[t].lang = "ja"
            /\ ja_tokenizer = "None")
           => threads[t].out = Chars(Strip(threads[t].line))

\* C9: under concurrent first calls each external segmenter is loaded once.
C9_LoadedOnce == loads.zh <= 1 /\ loads.ja <= 1

(***************************************************************************)
(* SpecDetect: detect_language on one text, the predictor's answer drawn   *)
(* from its possible outcomes.                                             *)
(***************************************************************************)
DetectChars == {"HANGUL", "HAN", "KANA", "a", "E_ACUTE", " "}

PredOutcomes ==
    {[raises |-> TRUE, label |-> <<"", "">>, score |-> 0]}
    \cup [raises : {FALSE}, label : Labels, score : {0, 30, 31, 99}]

InitDetect ==
    /\ NoCall
    /\ NoNormalize
    /\ NoCalculator
    /\ NoThreads

DetectLanguage ==
    /\ call.op = "none"
    /\ \E t \in Strings(DetectChars, MaxText), pred \in PredOutcomes :
          /\ call' = [op |-> "detect_language", text |-> t, pred |-> pred]
          /\ result' = [kind |-> "returned", value |-> detect_language(t, pred)]
    /\ UNCHANGED <<nvars, env, en_words, calc, threads>>

NextDetect == DetectLanguage

SpecDetect == InitDetect /\ [][NextDetect]_vars

\* the greatest number of matches of any language pattern in t
MaxMatches(t) ==
    CHOOSE m \in 0..Len(t) :
        /\ \E l \in SUPPORTED_LANGUAGES : Matches(l, t) = m
        /\ \A l \in SUPPORTED_LANGUAGES : Matches(l, t) <= m

\* the character-based winner: the first language in pattern order that
\* reaches the greatest number of matches
FirstMax(t) ==
    LangOrder[CHOOSE i \in 1..Len(LangOrder) :
                /\ Matches(LangOrder[i], t) = MaxMatches(t)
                /\ \A j \in 1..(i - 1) : Matches(LangOrder[j], t) < MaxMatches(t)]

\* C3: detect_language follows the two-signal rule: 'unknown' when the
\* predictor raises; otherwise the character-based winner when the greatest
\* character ratio is strictly above one half, whatever the vote; otherwise
\* the predictor's label when its confidence is strictly above 0.3, and
\* 'unknown' when it is not.
C3_DecisionRule ==
    call.op = "detect_language" =>
        LET t == call.text
            pred == call.pred
            half == Strip(t) # <<>> /\ 2 * MaxMatches(t) > Len(t)
        IN  /\ pred.raises => result.value = "unknown"
            /\ (~pred.raises /\ half) => result.value = FirstMax(t)
            /\ (~pred.raises /\ ~half /\ pred.score > 30) =>
                  result.value = removeprefix(pred.label)
            /\ (~pred.raises /\ ~half /\ pred.score <= 30) =>
                  result.value = "unknown"

\* C3 witness: a text that is more than half Hangul was detected 'ko' against
\* a confident vote for English.
C3_Witness ==
    /\ call.op = "detect_language"
    /\ Len(call.text) = 3
    /\ Matches("ko", call.text) = 2
    /\ ~call.pred.raises
    /\ call.pred.label = Label("en")
    /\ call.pred.score = 99
    /\ result.value = "ko"

(***************************************************************************)
(* Spec: one scoring call on a freshly constructed calculator.             *)
(***************************************************************************)
Hangul6 == <<"HANGUL", "HANGUL", "HANGUL", "HANGUL", "HANGUL", "HANGUL">>
Han6 == <<"HAN", "HAN", "HAN", "HAN", "HAN", "HAN">>
Hope == <<"h", "o", "p", "e">>

\* the lines responses are made of
SampleLines ==
    { Hangul6 \o <<" ">> \o Hope,                       \* Korean with an English word
      Han6 \o <<" ">> \o Hope,                          \* Chinese with an English word
      <<"KANA", "KANA", "KANA", "HAN", "HAN", "HAN", " ">> \o Hope,     \* Japanese
      <<"N_TILDE", " ", "E_ACUTE", " ", "a", "IDEOSTOP">>,              \* Spanish
      <<"Q", ":", " ">> \o Hope \o <<"EMDASH", "a", "!">> }            \* English; after
                                        \* a newline, a prompt continuation

RECURSIVE Join(_)
Join(ls) ==
    IF Len(ls) = 0 THEN <<>>
    ELSE IF Len(ls) = 1 THEN ls[1]
    ELSE ls[1] \o <<"\n">> \o Join(Tail(ls))

\* the responses: up to MaxLines sample lines joined by newlines
Responses == {Join(ls) : ls \in UNION {[1..n -> SampleLines] : n \in 0..MaxLines}}

\* the expected_language arguments: the registry and a code outside it
Languages == SUPPORTED_LANGUAGES \cup {"ru"}

\* the words files: none, or one with a usable word, a short one, a
\* capitalised one and one of accented letters
WordsFiles ==
    {"missing",
     <<Hope \o <<"\n">>, <<"t", "h", "e">>, <<"H", "o", "p", "e">>,
       <<"E_ACUTE", "N_TILDE", "E_ACUTE", "N_TILDE", "\n">>>>}

\* the hosts of the scoring calls
ScoringHosts ==
    {h \in [jieba : BOOLEAN, fugashi : BOOLEAN, unidic : BOOLEAN,
            fetch : {"works", "noeffect"}, seg : {"runs"},
            predictor : {"script", "unsure", "regional", "broken"}] :
        /\ h.jieba = h.fugashi
        /\ h.unidic = h.fugashi
        /\ (~h.fugashi => h.fetch = "noeffect")}

Init ==
    /\ env \in ScoringHosts
    /\ dict_present = FALSE
    /\ en_words \in {load_english_words(f) : f \in WordsFiles}
    /\ InitCalculator
    /\ NoCall
    /\ NoNormalize
    /\ NoThreads

SetCalc(c) ==
    /\ zh_tokenizer' = c.zh
    /\ ja_tokenizer' = c.ja
    /\ dict_present' = c.dict
    /\ loads' = c.loads
    /\ cache' = c.cache

CalculateLanguageConfusion ==
    /\ call.op = "none"
    /\ \E response \in Responses, lang \in Languages :
          \E r \in {calculate_language_confusion(Calc, response, lang)} :
          /\ call' = [op |-> "calculate_language_confusion",
                      response |-> response, lang |-> lang, before |-> Calc]
          /\ result' = r
          /\ SetCalc(r.c)
    /\ UNCHANGED <<env, en_words, nvars, threads>>

AnalyzeResponse ==
    /\ call.op = "none"
    /\ \E response \in Responses, lang \in Languages :
          \E r \in {analyze_response(Calc, response, lang)} :
          /\ call' = [op |-> "analyze_response",
                      response |-> response, lang |-> lang, before |-> Calc]
          /\ result' = r
          /\ SetCalc(r.c)
    /\ UNCHANGED <<env, en_words, nvars, threads>>

CalculateAllScores ==
    /\ call.op = "none"
    /\ \E response \in Responses, lang \in Languages :
          \E r \in {calculate_all_scores(Calc, response, lang)} :
          /\ call' = [op |-> "calculate_all_scores",
                      response |-> response, lang |-> lang, before |-> Calc]
          /\ result' = r
          /\ SetCalc(r.c)
    /\ UNCHANGED <<env, en_words, nvars, threads>>

Next == CalculateLanguageConfusion \/ AnalyzeResponse \/ CalculateAllScores

Spec == Init /\ [][Next]_vars

Scored == call.op = "calculate_language_confusion"
Returned_ == result.kind = "returned"

\* the line holds the word as a run of text
ContainsRun(line, w) == \E i \in 1..Len(line) : MatchesAt(line, w, i)
HasEnglish(line) == \E w \in en_words : ContainsRun(line, w)

InUnit(x) == RatLeq(Zero, x) /\ RatLeq(x, One)

\* C2: with a lexicon and expected language ko, every surviving line that is
\* classified ko and holds a lexicon word as a run of text is counted in
\* lines_with_word_errors; when there is one and every line is classified ko,
\* word_pass_rate < 1.0 while line_accuracy = 1.0.
C2_WordErrorCounted ==
    (Scored /\ call.lang = "ko" /\ en_words # {} /\ Returned_) =>
        LET leaks == {i \in 1..Len(result.records) :
                        /\ result.records[i].detected = "ko"
                        /\ HasEnglish(result.records[i].line)}
        IN  /\ result.metrics.lines_with_word_errors = Cardinality(leaks)
            /\ (leaks # {} /\ result.metrics.line_accuracy = One) =>
                  result.metrics.word_pass_rate # One

\* C4: for a supported language, an empty response, or one whose lines all
\* have fewer than 3 tokens, gets the optimistic default, and the language
\* identifier is not consulted.
C4_OptimisticDefault ==
    (Scored /\ call.lang \in SUPPORTED_LANGUAGES) =>
        /\ call.response = <<>> =>
              /\ Returned_
              /\ result.metrics = default_metrics(call.lang)
              /\ result.detected = 0
        /\ (/\ Returned_
            /\ \A i \in 1..Len(result.line_tokens) : Len(result.line_tokens[i]) < 3)
           => /\ result.metrics.line_accuracy = One
              /\ result.metrics.line_pass_rate = One
              /\ result.metrics.language_confidence = One
              /\ result.metrics.total_lines = 0
              /\ result.metrics.lines_with_errors = 0
              /\ result.metrics.lines_with_word_errors = 0
              /\ result.metrics.word_pass_rate =
                    (IF call.lang \in {"ko", "zh", "ja"} THEN One ELSE None)
              /\ result.detected = 0

\* C4, the part the code keeps: a call that returns, and in which no line has
\* 3 tokens, returns the optimistic default without a detection.
C4_DefaultWhenTokenized ==
    (Scored /\ Returned_
       /\ \A i \in 1..Len(result.line_tokens) : Len(result.line_tokens[i]) < 3)
    => /\ result.metrics.line_accuracy = One
       /\ result.metrics.line_pass_rate = One
       /\ result.metrics.language_confidence = One
       /\ result.metrics.total_lines = 0
       /\ result.metrics.word_pass_rate =
             (IF call.lang \in {"ko", "zh", "ja"} THEN One ELSE None)
       /\ result.detected = 0

\* C5: the word_pass_rate of a returned metrics record is non-null if and
\* only if the expected language is ko, zh or ja, whether or not a line
\* survived the filter.
C5_WordPassRateNullity ==
    (call.op # "none" /\ Returned_) =>
        (result.metrics.word_pass_rate # None <=> call.lang \in {"ko", "zh", "ja"})

\* C5 witness: a record with surviving lines was returned for a language that
\* has no word_pass_rate.
C5_Witness ==
    /\ Scored
    /\ Returned_
    /\ call.lang = "es"
    /\ result.metrics.total_lines = 2
    /\ result.metrics.lines_with_errors = 1
    /\ result.metrics.word_pass_rate = None

\* C6: in every returned metrics record line_accuracy, line_pass_rate and
\* language_confidence lie in [0, 1], word_pass_rate does when it is not null,
\* and lines_with_word_errors is at most total_lines - lines_with_errors.
C6_MetricsInUnitInterval ==
    (call.op # "none" /\ Returned_) =>
        LET m == result.metrics IN
        /\ InUnit(m.line_accuracy)
        /\ InUnit(m.line_pass_rate)
        /\ InUnit(m.language_confidence)
        /\ m.word_pass_rate # None => InUnit(m.word_pass_rate)
        /\ m.lines_with_word_errors <= m.total_lines - m.lines_with_errors
        /\ m.lines_with_errors <= m.total_lines

\* C6 witness: every surviving line was an error, two of them with an English
\* word among their tokens, and word_pass_rate is 1.
C6_Witness ==
    /\ Scored
    /\ Returned_
    /\ call.lang = "zh"
    /\ en_words # {}
    /\ result.metrics.total_lines = 2
    /\ result.metrics.lines_with_errors = 2
    /\ \A i \in 1..2 : any_english(result.records[i].tokens)
    /\ result.metrics.lines_with_word_errors = 0
    /\ result.metrics.word_pass_rate = One

\* C7: a call with an expected language outside the registry raises the
\* invalid-language error before anything is normalized, tokenized or
\* detected, and leaves the tokenizer handles and the tokenize cache as they
\* were.
C7_InvalidLanguage ==
    (call.op # "none" /\ call.lang \notin {"ko", "en", "zh", "ja", "es", "fr", "de", "it", "pt"}) =>
        /\ result.kind = "raised"
        /\ result.error = "ValueError"
        /\ result.normalized = 0
        /\ result.tokenized = 0
        /\ result.detected = 0
        /\ Calc = call.before

\* C7 witness: a two-line response was scored against 'ru' and the call
\* raised.
C7_Witness ==
    /\ Scored
    /\ call.lang = "ru"
    /\ Len(SplitLines(call.response)) = 2
    /\ result.kind = "raised"
    /\ result.error = "ValueError"

(***************************************************************************)
(* SpecScores: the three comprehensive scores, each applied to a metrics   *)
(* record and to the record that differs from it in line_accuracy alone.   *)
(***************************************************************************)
\* the fractions of [0, 1] with a denominator of at most MaxDen
Fractions ==
    {Rat(p[1], p[2]) : p \in {q \in (0..MaxDen) \X (1..MaxDen) : q[1] <= q[2]}}

\* the entries of a metrics record the scores read
MetricsRecords ==
    [line_accuracy : Fractions, language_confidence : Fractions,
     line_pass_rate : Fractions, word_pass_rate : Fractions \cup {None}]

ScoreLangs == {"ko", "es"}

InitScores ==
    /\ NoCall
    /\ NoNormalize
    /\ NoCalculator
    /\ NoThreads

\* the second record: m with a line_accuracy that is no higher
Lowered(m, la) == [m EXCEPT !.line_accuracy = la]

ComprehensiveScore ==
    /\ call.op = "none"
    /\ \E m \in MetricsRecords, la \in Fractions, lang \in ScoreLangs :
          /\ RatLeq(la, m.line_accuracy)
          /\ call' = [op |-> "calculate_comprehensive_score", metrics |-> m,
                      second |-> Lowered(m, la), lang |-> lang,
                      weights |-> weights(m, lang)]
          /\ result' = [kind |-> "returned",
                        value |-> calculate_comprehensive_score(m, lang),
                        second |-> calculate_comprehensive_score(Lowered(m, la), lang)]
    /\ UNCHANGED <<nvars, env, en_words, calc, threads>>

SimpleComprehensiveScore ==
    /\ call.op = "none"
    /\ \E m \in MetricsRecords, la \in Fractions :
          /\ RatLeq(la, m.line_accuracy)
          /\ call' = [op |-> "calculate_simple_comprehensive_score", metrics |-> m,
                      second |-> Lowered(m, la)]
          /\ result' = [kind |-> "returned",
                        value |-> calculate_simple_comprehensive_score(m),
                        second |-> calculate_simple_comprehensive_score(Lowered(m, la))]
    /\ UNCHANGED <<nvars, env, en_words, calc, threads>>

MaxComprehensiveScore ==
    /\ call.op = "none"
    /\ \E m \in MetricsRecords, la \in Fractions :
          /\ RatLeq(la, m.line_accuracy)
          /\ call' = [op |-> "calculate_max_comprehensive_score", metrics |-> m,
                      second |-> Lowered(m, la)]
          /\ result' = [kind |-> "returned",
                        value |-> calculate_max_comprehensive_score(m),
                        second |-> calculate_max_comprehensive_score(Lowered(m, la))]
    /\ UNCHANGED <<nvars, env, en_words, calc, threads>>

NextScores == ComprehensiveScore \/ SimpleComprehensiveScore \/ MaxComprehensiveScore

SpecScores == InitScores /\ [][NextScores]_vars

ScoreOps ==
    {"calculate_comprehensive_score", "calculate_simple_comprehensive_score",
     "calculate_max_comprehensive_score"}

\* C11: of two metrics records that differ only in that the second has a
\* strictly lower line_accuracy, the second has a weighted, a simple and a max
\* comprehensive score that is greater than or equal to the first's, for the
\* same expected language.
C11_Monotone ==
    (/\ call.op \in ScoreOps
     /\ call.second.line_accuracy # call.metrics.line_accuracy) =>
        RatLeq(result.value, result.second)

\* C11 witness: line_accuracy fell from 1 to 0 in a record that has no
\* word_pass_rate and the weighted score rose from 0 to 0.46.
C11_Witness ==
    /\ call.op = "calculate_comprehensive_score"
    /\ call.lang = "es"
    /\ call.metrics = [line_accuracy |-> One, language_confidence |-> One,
                       line_pass_rate |-> One, word_pass_rate |-> None]
    /\ call.second.line_accuracy = Zero
    /\ result.value = Zero
    /\ result.second = <<23, 50>>

\* where word_pass_rate applies: a CJK expected language and a value
WordPassRateApplies ==
    call.lang \in {"ko", "zh", "ja"} /\ call.metrics.word_pass_rate # None

\* the weighted sum of the complements of the metrics of m under weights w
WeightedSum(m, w) ==
    RatSum(<<RatMul(RatSub(One, m.line_accuracy), w.line_accuracy),
             RatMul(RatSub(One, m.language_confidence), w.language_confidence),
             RatMul(RatSub(One, m.line_pass_rate), w.line_pass_rate)>>
           \o (IF m.word_pass_rate = None THEN <<>>
               ELSE <<RatMul(RatSub(One, m.word_pass_rate), w.word_pass_rate)>>))

\* C12: calculate_comprehensive_score weighs line_accuracy 0.4,
\* language_confidence 0.3, line_pass_rate 0.2 and word_pass_rate 0.1 where
\* word_pass_rate applies, and 0.46, 0.34, 0.2 and 0 where the expected
\* language is not CJK or word_pass_rate is null; the weights sum to 1 and the
\* score of metrics in [0, 1] lies in [0, 1].
C12_Weights ==
    call.op = "calculate_comprehensive_score" =>
        /\ WordPassRateApplies =>
              call.weights = [line_accuracy |-> <<2, 5>>,
                              language_confidence |-> <<3, 10>>,
                              line_pass_rate |-> <<1, 5>>,
                              word_pass_rate |-> <<1, 10>>]
        /\ ~WordPassRateApplies =>
              call.weights = [line_accuracy |-> <<23, 50>>,
                              language_confidence |-> <<17, 50>>,
                              line_pass_rate |-> <<1, 5>>,
                              word_pass_rate |-> <<0, 1>>]
        /\ RatSum(<<call.weights.line_accuracy, call.weights.language_confidence,
                    call.weights.line_pass_rate, call.weights.word_pass_rate>>) = One
        /\ result.value = WeightedSum(call.metrics, call.weights)
        /\ InUnit(result.value)

\* C12 witness: a record with a null word_pass_rate was scored for Korean under
\* the moved weights, every metric at 0, and the score is 1.
C12_Witness ==
    /\ call.op = "calculate_comprehensive_score"
    /\ call.lang = "ko"
    /\ call.metrics = [line_accuracy |-> Zero, language_confidence |-> Zero,
                       line_pass_rate |-> Zero, word_pass_rate |-> None]
    /\ call.weights.line_accuracy = <<23, 50>>
    /\ call.weights.word_pass_rate = Zero
    /\ result.value = One

(***************************************************************************)
(* Ties between character ratios, in the scoring calls of Spec and in      *)
(* detect_language on its own.                                             *)
(***************************************************************************)
\* more than half of the characters of the line are unaccented letters and
\* none is an accented letter: en, es, fr, de, it and pt tie
EnglishLooking(line) ==
    /\ 2 * Count(line, AsciiLetters) > Len(line)
    /\ Count(line, AccentedLetters) = 0

\* more than half of the characters of the line are Han and none is kana:
\* zh and ja tie
HanLooking(line) ==
    /\ 2 * Count(line, {"HAN"}) > Len(line)
    /\ Count(line, {"KANA"}) = 0

\* the surviving lines of the call that look English
EnglishLookingRecords ==
    {i \in 1..Len(result.records) : EnglishLooking(result.records[i].line)}

\* C13: ties between character ratios go to the first language in the order
\* ko, zh, ja, en, es, fr, de, it, pt, whatever the expected language and the
\* statistical vote: a surviving line that is more than half unaccented
\* letters, with no accented letter, is always detected 'en', so it is counted
\* in lines_with_errors when es, fr, de, it or pt is expected; a line that is
\* more than half Han with no kana is always detected 'zh', never 'ja'.
C13_FirstMaximumAlways ==
    (Scored /\ Returned_) =>
        /\ \A i \in 1..Len(result.records) :
              /\ EnglishLooking(result.records[i].line) =>
                    result.records[i].detected = "en"
              /\ HanLooking(result.records[i].line) =>
                    result.records[i].detected = "zh"
        /\ call.lang \in {"es", "fr", "de", "it", "pt"} =>
              /\ \A i \in EnglishLookingRecords : ~result.records[i].correct
              /\ result.metrics.lines_with_errors >= Cardinality(EnglishLookingRecords)

\* C13 as the code has it: when the predictor does not raise, such a line is
\* detected 'en', respectively 'zh', whatever the predictor's label and the
\* expected language; when the predictor raises it is detected 'unknown'.
\* Either way it is never 'ja', and it is counted in lines_with_errors when
\* es, fr, de, it or pt is expected.
C13_FirstMaximumUnlessRaised ==
    (Scored /\ Returned_) =>
        /\ \A i \in 1..Len(result.records) :
              LET rec == result.records[i]
                  raises == predict(rec.line).raises
              IN  /\ (EnglishLooking(rec.line) /\ ~raises) => rec.detected = "en"
                  /\ (HanLooking(rec.line) /\ ~raises) => rec.detected = "zh"
                  /\ ((EnglishLooking(rec.line) \/ HanLooking(rec.line)) /\ raises) =>
                        rec.detected = "unknown"
                  /\ HanLooking(rec.line) => rec.detected # "ja"
        /\ call.lang \in {"es", "fr", "de", "it", "pt"} =>
              /\ \A i \in EnglishLookingRecords : ~result.records[i].correct
              /\ result.metrics.lines_with_errors >= Cardinality(EnglishLookingRecords)

\* C13 witness: Spanish was expected, the predictor voted Spanish with
\* confidence 0.99 for a line whose en and es ratios tie above one half, and
\* the line was detected 'en' and counted as an error.
C13_Witness ==
    /\ Scored
    /\ Returned_
    /\ call.lang = "es"
    /\ Len(result.records) = 1
    /\ LET rec == result.records[1]
       IN  /\ EnglishLooking(rec.line)
           /\ Matches("en", rec.line) = Matches("es", rec.line)
           /\ ~predict(rec.line).raises
           /\ predict(rec.line).label = Label("es")
           /\ predict(rec.line).score = 99
           /\ rec.detected = "en"
           /\ ~rec.correct
    /\ result.metrics.lines_with_errors = 1
    /\ result.metrics.line_accuracy = Zero

\* The same ties in detect_language on its own, for every text of up to
\* MaxText characters and every answer of the predictor that is not an
\* exception.
C13_AnyVote ==
    (call.op = "detect_language" /\ ~call.pred.raises) =>
        /\ EnglishLooking(call.text) => result.value = "en"
        /\ HanLooking(call.text) => result.value = "zh"

=============================================================================
